---- MODULE Spec2Model ----
(***************************************************************************)
(* Requirement scraping state machine of the BuySmart backend:             *)
(*   backend/app/services/scraper.py   trigger_scraping_for_requirement,   *)
(*                                     _is_listing_matching_requirement,   *)
(*                                     schedule_periodic_scraping,         *)
(*                                     ScraperService.search_listings      *)
(*   backend/app/services/scheduler.py SchedulerService._execute_search_task*)
(*   backend/app/api/requirements.py   create_requirement,                 *)
(*                                     update_requirement,                 *)
(*                                     delete_requirement, trigger_scraping*)
(*   backend/app/models/database.py    Requirement, Listing, User          *)
(*   backend/app/services/auth.py      verify_token, get_current_user,     *)
(*                                     authenticate_user, create_user      *)
(*   backend/app/api/listings.py       create_listing, get_listing         *)
(*   backend/app/api/scheduler.py      schedule_search, schedule_analysis, *)
(*                                     schedule_valuation                  *)
(*   backend/app/main.py               the routers the application mounts  *)
(*                                                                         *)
(* Time is counted in hours.  Strings that the code compares character by  *)
(* character (titles, deal-breaker keywords) are sequences of one-letter   *)
(* strings.  A database session is modelled by the row it has loaded: an   *)
(* UPDATE writes the attributes whose value differs from the loaded one.   *)
(* last_step holds what the step just taken computed and logged (the      *)
(* locals of the trigger are dead once its synchronous block has ended).   *)
(* api holds the users table, the length of the task queue and the HTTP    *)
(* request last served with its response.                                  *)
(***************************************************************************)
EXTENDS Integers, Sequences, FiniteSets, TLC

\* ---------------------------------------------------------------- bounds
MaxTime == 1
MaxTasks == 1
MaxResults == 2
MaxRuns == 2

\* ------------------------------------------------------ program constants
Day == 24
Hour == 1
Null == -1
NoPrice == -1
NoReq == "none"
NoUser == "nobody"
Expired == [expired |-> TRUE]

RequirementIds == {"r1", "r2"}
PassTask == 0
Tasks == 0..MaxTasks

\* ------------------------------------------------------- scraper results
\* what search_listings may hand to the trigger: with or without an external
\* id, with or without a price, priced below, inside or above the budget of
\* Init, with a title that holds the deal-breaker of Init in another case or
\* only its letters
Prices == {NoPrice, 1, 2, 3}
Candidate(olx_id, price, title) ==
    [olx_id |-> olx_id, price |-> price, title |-> title]
Candidates ==
    {Candidate("x1", 2, <<"b", "c", "a">>), Candidate("", 2, <<"b", "c", "a">>),
     Candidate("x1", 1, <<"b", "c", "a">>), Candidate("", 3, <<"b", "c", "a">>),
     Candidate("x1", 2, <<"c", "b", "A">>), Candidate("", NoPrice, <<"b", "c", "a">>)}

RECURSIVE SeqsUpTo(_, _)
SeqsUpTo(S, n) ==
    IF n = 0 THEN {<<>>}
    ELSE LET shorter == SeqsUpTo(S, n - 1)
         IN  shorter \cup {Append(s, x) : s \in {q \in shorter : Len(q) = n - 1}, x \in S}

\* the marketplace of a behaviour offers all of Candidates or nothing
Sites == {Candidates, {}}

Results(offered) == SeqsUpTo(offered, MaxResults)

\* ------------------------------------------------------------ str helpers
LowerChar(c) ==
    CASE c = "A" -> "a"
      [] c = "B" -> "b"
      [] c = "C" -> "c"
      [] OTHER -> c

Lower(s) == [i \in 1..Len(s) |-> LowerChar(s[i])]

RECURSIVE StartsAt(_, _, _)
StartsAt(needle, hay, i) ==
    IF needle = <<>> THEN TRUE
    ELSE IF i > Len(hay) THEN FALSE
    ELSE Head(needle) = hay[i] /\ StartsAt(Tail(needle), hay, i + 1)

RECURSIVE InFrom(_, _, _)
InFrom(needle, hay, i) ==
    IF i > Len(hay) + 1 THEN FALSE
    ELSE StartsAt(needle, hay, i) \/ InFrom(needle, hay, i + 1)

StrIn(needle, hay) == InFrom(needle, hay, 1)

\* ------------------------------------------------------------------ rows
AbsentRow ==
    [exists |-> FALSE, status |-> "active", scraping_status |-> "pending",
     last_scraped_at |-> Null, next_scrape_at |-> Null,
     total_listings_found |-> 0, matching_listings_count |-> 0,
     budget_min |-> 0, budget_max |-> 0, deal_breakers |-> <<>>,
     user_id |-> NoUser]

\* the requirements of the scraping state machine belong to user u1
NewRow(bmin, bmax, dbs, st, nxt) ==
    [AbsentRow EXCEPT !.exists = TRUE, !.status = st, !.next_scrape_at = nxt,
                      !.user_id = "u1",
                      !.budget_min = bmin, !.budget_max = bmax,
                      !.deal_breakers = dbs]

\* ----------------------------------------------------------------- users
Emails == {"a", "b"}
Passwords == {"p", "q"}
NoEmail == ""
NoHash == <<>>

\* services/auth.py 19-21: a hash is not the password
GetPasswordHash(password) == <<"bcrypt", password>>

\* services/auth.py 14-16: a user without a hash (OAuth) matches no password
VerifyPassword(plain_password, hashed_password) ==
    /\ hashed_password # NoHash
    /\ hashed_password = GetPasswordHash(plain_password)

NoUserRow == [exists |-> FALSE, id |-> NoUser, password_hash |-> NoHash]

UserRow(id, password_hash) ==
    [exists |-> TRUE, id |-> id, password_hash |-> password_hash]

\* the users table: a is the owner of the requirements, b is unknown, has a
\* password or signs in through OAuth only
UserTables ==
    {[e \in Emails |-> IF e = "a" THEN UserRow("u1", GetPasswordHash("p"))
                       ELSE b] :
        b \in {NoUserRow, UserRow("u2", GetPasswordHash("q")),
               UserRow("u2", NoHash)}}

\* what an Authorization header may carry: nothing, or a token that decodes
\* under the secret key (signature and expiry) or does not, with or without
\* a subject
NoCredentials == [present |-> FALSE, decodable |-> FALSE, sub |-> NoEmail]

Token(decodable, sub) == [present |-> TRUE, decodable |-> decodable, sub |-> sub]

Credentials ==
    {NoCredentials, Token(FALSE, "a"), Token(TRUE, NoEmail), Token(TRUE, "a"),
     Token(TRUE, "b")}

NoRequest ==
    [router |-> "none", op |-> "none", credentials |-> NoCredentials,
     rid |-> NoReq, body |-> <<>>]

Request(router, op, credentials, rid, body) ==
    [router |-> router, op |-> op, credentials |-> credentials, rid |-> rid,
     body |-> body]

\* data: the requirements whose fields the response carries
Response(status, data) ==
    [status |-> status, data |-> data, token |-> NoCredentials,
     listing |-> <<>>]

NoResponse == Response(0, {})

IdleApi ==
    [users |-> [e \in Emails |->
                   IF e = "a" THEN UserRow("u1", GetPasswordHash("p"))
                   ELSE NoUserRow],
     queue |-> 0, request |-> NoRequest, response |-> NoResponse]

IdleTask ==
    [pc |-> "idle", rid |-> NoReq, loaded |-> Expired, outcome |-> "none",
     marked |-> FALSE, search_raised |-> FALSE]

NoStep == [kind |-> "none"]

IdlePass ==
    [pc |-> "idle", list |-> <<>>, idx |-> 1, due |-> {}, query_ok |-> FALSE,
     invoked |-> [r \in RequirementIds |-> 0], outcomes |-> <<>>]

VARIABLES reqs, listings, now, tasks, periodic, runs, last_step, site, api

vars == <<reqs, listings, now, tasks, periodic, runs, last_step, site, api>>

\* ------------------------------------------------------- matching filter
DealBreakerHitMutant(title, deal_breakers) ==
    \E i \in 1..Len(deal_breakers) : StrIn(deal_breakers[i], Lower(title))

DealBreakerHit(title, deal_breakers) ==
    /\ deal_breakers # <<>>
    /\ \E i \in 1..Len(deal_breakers) :
          StrIn(Lower(deal_breakers[i]), Lower(title))

PriceOutOfRangeMutant(price, bmin, bmax) == price < bmin

PriceOutOfRange(price, bmin, bmax) == price < bmin \/ price > bmax

IsListingMatching(listing, requirement) ==
    IF \/ listing.price = NoPrice
       \/ requirement.budget_min = Null
       \/ requirement.budget_max = Null
    THEN FALSE
    ELSE IF PriceOutOfRange(listing.price, requirement.budget_min,
                            requirement.budget_max)
    THEN FALSE
    ELSE ~DealBreakerHit(listing.title, requirement.deal_breakers)

MatchingListings(listings_data, requirement) ==
    SelectSeq(listings_data, LAMBDA l : IsListingMatching(l, requirement))

\* ------------------------------------------------------------ persistence
ExistingMutant(rows, olx_id, requirement_id) == FALSE

Existing(rows, olx_id, requirement_id) ==
    \E i \in 1..Len(rows) : /\ rows[i].olx_id = olx_id
                            /\ rows[i].requirement_id = requirement_id

RECURSIVE NewListings(_, _, _)
NewListings(rows, matching, requirement_id) ==
    IF matching = <<>> THEN <<>>
    ELSE LET l == Head(matching)
             rest == NewListings(rows, Tail(matching), requirement_id)
         IN  IF Existing(rows, l.olx_id, requirement_id)
             THEN rest
             ELSE <<[requirement_id |-> requirement_id, olx_id |-> l.olx_id,
                     price |-> l.price, title |-> l.title]>> \o rest

UniqueOlxIdMutant(rows) == TRUE

UniqueOlxId(rows) ==
    \A i, j \in 1..Len(rows) : rows[i].olx_id = rows[j].olx_id => i = j

RowMatchedMutant(row) == TRUE

\* the UPDATE of a flush must match the row it was built for, or the flush
\* raises (the row was deleted by another session)
RowMatched(row) == row.exists

FlushUpdate(row, loaded, attrs) ==
    [c \in DOMAIN row |->
        IF c \in DOMAIN attrs /\ (loaded = Expired \/ loaded[c] # attrs[c])
        THEN attrs[c] ELSE row[c]]

StartAttrsMutant(t) == [last_scraped_at |-> t]

StartAttrs(t) == [scraping_status |-> "in_progress", last_scraped_at |-> t]

SuccessAttrsMutant(t, total, matching) ==
    [total_listings_found |-> total, matching_listings_count |-> matching,
     scraping_status |-> "completed", last_scraped_at |-> t,
     next_scrape_at |-> t + Hour]

SuccessAttrs(t, total, matching) ==
    [total_listings_found |-> total, matching_listings_count |-> matching,
     scraping_status |-> "completed", last_scraped_at |-> t,
     next_scrape_at |-> t + Day]

FailedAttrs == [scraping_status |-> "failed"]

SearchOnError == <<>>

HandlerOutcomeMutant(commit_ok) == IF commit_ok THEN "failed" ELSE "raised"

HandlerOutcome(commit_ok) == "failed"

\* ------------------------------------------------------------------ init
Init ==
    /\ now = 0
    /\ site \in Sites
    /\ \E n1 \in {0, Day}, s2 \in {"active", "paused"}, e2 \in BOOLEAN :
          /\ e2 = (site # Candidates)
          /\ reqs = [r \in RequirementIds |->
                       IF r = "r1"
                       THEN NewRow(2, 2, << <<"B", "a">> >>, "active", n1)
                       ELSE IF e2 THEN NewRow(2, 2, <<>>, s2, 0)
                       ELSE AbsentRow]
    /\ listings = <<>>
    /\ tasks = [t \in Tasks |-> IdleTask]
    /\ periodic = IdlePass
    /\ runs = 0
    /\ last_step = NoStep
    /\ api = IdleApi

Tick ==
    /\ now < MaxTime
    /\ now' = now + 1
    /\ last_step' = NoStep
    /\ UNCHANGED <<api, site, reqs, listings, tasks, periodic, runs>>


\* ------------------------------------------ trigger_scraping_for_requirement
SetTask(t, rec) == tasks' = [tasks EXCEPT ![t] = rec]

Done(t, rid, outcome) ==
    [IdleTask EXCEPT !.pc = "done", !.rid = rid, !.outcome = outcome,
                     !.marked = tasks[t].marked,
                     !.search_raised = tasks[t].search_raised]

\* the except block (scraper.py 346-353) run by a session whose last commit
\* did not fail: set scraping_status = "failed" and commit
HandlerCommit(t, commit_ok) ==
    LET rid == tasks[t].rid
        written == commit_ok /\ RowMatched(reqs[rid])
    IN  /\ reqs' = IF written
                   THEN [reqs EXCEPT ![rid] =
                            FlushUpdate(reqs[rid], tasks[t].loaded, FailedAttrs)]
                   ELSE reqs
        /\ SetTask(t, Done(t, rid, HandlerOutcome(written)))
        /\ last_step' = [kind |-> "handler", rid |-> rid, persisted |-> written,
                         saved |-> <<>>]

\* the except block run after the lookup or a commit of the same session has
\* failed: the name is unbound or the session refuses the second commit, and
\* the bare except swallows that
HandlerAfterFailure(t, rid, raised, info) ==
    /\ reqs' = reqs
    /\ SetTask(t, [Done(t, rid, HandlerOutcome(FALSE)) EXCEPT
                      !.search_raised = raised])
    /\ last_step' = [kind |-> "handler", rid |-> rid, persisted |-> FALSE,
                     saved |-> info]

NotFoundMutant(row) == FALSE

\* line 274: the lookup returned no row
NotFound(row) == ~row.exists

\* lines 270-283: look the requirement up, mark it in_progress, commit
StartAttempt(t, rid) ==
    /\ tasks[t].pc = "idle"
    /\ runs < MaxRuns
    /\ runs' = runs + 1
    /\ \E lookup_ok \in BOOLEAN, commit_ok \in BOOLEAN :
          LET row == FlushUpdate(reqs[rid], reqs[rid], StartAttrs(now))
          IN  IF ~lookup_ok
              THEN HandlerAfterFailure(t, rid, FALSE, <<>>)
              ELSE IF NotFound(reqs[rid])
              THEN /\ reqs' = reqs
                   /\ SetTask(t, Done(t, rid, "not_found"))
                   /\ last_step' = NoStep
              ELSE IF commit_ok
              THEN /\ reqs' = [reqs EXCEPT ![rid] = row]
                   /\ SetTask(t, [IdleTask EXCEPT !.pc = "scraping",
                                                  !.rid = rid, !.loaded = row,
                                                  !.marked = TRUE])
                   /\ last_step' = NoStep
              ELSE HandlerAfterFailure(t, rid, FALSE, <<>>)
    /\ UNCHANGED <<api, site, listings, now>>

\* a direct or detached call of the trigger
TriggerCall(t, rid) ==
    /\ t # PassTask
    /\ StartAttempt(t, rid)
    /\ UNCHANGED periodic

\* line 286: entering the scraper context raises
EnterRaises(t) ==
    /\ tasks[t].pc = "scraping"
    /\ \E commit_ok \in BOOLEAN : HandlerCommit(t, commit_ok)
    /\ UNCHANGED <<api, site, listings, now, periodic, runs>>

\* lines 294-344: the search returns, the results are filtered, saved and
\* committed with the requirement's counters
SearchReturns(t) ==
    /\ tasks[t].pc = "scraping"
    /\ \E raised \in BOOLEAN, data \in Results(site), commit_ok \in BOOLEAN :
          LET rid == tasks[t].rid
              requirement == tasks[t].loaded
              listings_data == IF raised THEN SearchOnError ELSE data
              matching == MatchingListings(listings_data, requirement)
              new == NewListings(listings, matching, rid)
              attrs == SuccessAttrs(now, Len(listings_data), Len(matching))
              committed == /\ commit_ok
                           /\ RowMatched(reqs[rid])
                           /\ UniqueOlxId(listings \o new)
          IN  /\ raised => data = <<>>
              /\ IF committed
                 THEN /\ reqs' = [reqs EXCEPT ![rid] =
                             FlushUpdate(reqs[rid], requirement, attrs)]
                      /\ listings' = listings \o new
                      /\ SetTask(t, [tasks[t] EXCEPT !.pc = "exiting",
                                                     !.loaded = Expired,
                                                     !.search_raised = raised])
                      /\ last_step' =
                            [kind |-> "commit", rid |-> rid,
                             budget_min |-> requirement.budget_min,
                             budget_max |-> requirement.budget_max,
                             deal_breakers |-> requirement.deal_breakers,
                             listings_data |-> listings_data,
                             matching |-> matching,
                             total |-> attrs.total_listings_found,
                             matching_count |-> attrs.matching_listings_count,
                             saved_count |-> Len(new)]
                 ELSE /\ listings' = listings
                      /\ HandlerAfterFailure(t, rid, raised,
                            <<[matching |-> matching, saved_count |-> Len(new)]>>)
    /\ UNCHANGED <<api, site, now, periodic, runs>>

\* leaving the scraper context after the commit of line 340
ExitScraper(t) ==
    /\ tasks[t].pc = "exiting"
    /\ \E exit_ok \in BOOLEAN, commit_ok \in BOOLEAN :
          IF exit_ok
          THEN /\ reqs' = reqs
               /\ SetTask(t, Done(t, tasks[t].rid, "completed"))
               /\ last_step' = NoStep
          ELSE HandlerCommit(t, commit_ok)
    /\ UNCHANGED <<api, site, listings, now, periodic, runs>>

\* the coroutine of a direct call has returned
TaskReturn(t) ==
    /\ t # PassTask
    /\ tasks[t].pc = "done"
    /\ SetTask(t, IdleTask)
    /\ last_step' = NoStep
    /\ UNCHANGED <<api, site, reqs, listings, now, periodic, runs>>

\* ------------------------------------------------ schedule_periodic_scraping
DueRequirementsMutant(rows, t) ==
    {r \in RequirementIds : /\ rows[r].exists
                            /\ rows[r].status = "active"
                            /\ rows[r].next_scrape_at # Null
                            /\ rows[r].next_scrape_at < t}

DueRequirementsIdleMutant(rows, t) ==
    {r \in RequirementIds : /\ rows[r].exists
                            /\ rows[r].status = "active"
                            /\ rows[r].scraping_status \in {"pending", "completed"}
                            /\ rows[r].next_scrape_at # Null
                            /\ rows[r].next_scrape_at <= t}

DueRequirementsAnyStatusMutant(rows, t) ==
    {r \in RequirementIds : /\ rows[r].exists
                            /\ rows[r].next_scrape_at # Null
                            /\ rows[r].next_scrape_at <= t}

DueRequirements(rows, t) ==
    {r \in RequirementIds : /\ rows[r].exists
                            /\ rows[r].status = "active"
                            /\ rows[r].next_scrape_at # Null
                            /\ rows[r].next_scrape_at <= t}

Orders(S) == {q \in SeqsUpTo(S, Cardinality(S)) :
                 Len(q) = Cardinality(S) /\ \A i, j \in 1..Len(q) : q[i] = q[j] => i = j}

\* lines 399-406: the query of the pass; periodic.due records which rows
\* were active and due in the database when the query ran
PassStart ==
    /\ periodic.pc = "idle"
    /\ \E query_ok \in BOOLEAN :
          LET due == {r \in RequirementIds :
                         /\ reqs[r].exists /\ reqs[r].status = "active"
                         /\ reqs[r].next_scrape_at \in 0..now}
          IN  IF query_ok
              THEN \E order \in Orders(DueRequirements(reqs, now)) :
                      periodic' = [IdlePass EXCEPT
                                      !.pc = IF order = <<>> THEN "done" ELSE "loop",
                                      !.list = order, !.due = due,
                                      !.query_ok = TRUE]
              ELSE periodic' = [IdlePass EXCEPT !.pc = "done", !.due = due]
    /\ last_step' = NoStep
    /\ UNCHANGED <<api, site, reqs, listings, now, tasks, runs>>

\* lines 408-409: the pass awaits the trigger for the next requirement
PassInvoke ==
    /\ periodic.pc = "loop"
    /\ LET rid == periodic.list[periodic.idx]
       IN  /\ StartAttempt(PassTask, rid)
           /\ periodic' = [periodic EXCEPT !.pc = "await",
                                           !.invoked[rid] = @ + 1]

\* the awaited trigger has returned (or raised into line 411)
PassResume ==
    /\ periodic.pc = "await"
    /\ tasks[PassTask].pc = "done"
    /\ LET outcome == tasks[PassTask].outcome
           last == periodic.idx = Len(periodic.list)
       IN  periodic' = [periodic EXCEPT
                           !.outcomes = Append(@, outcome),
                           !.idx = IF outcome = "raised" THEN @ ELSE @ + 1,
                           !.pc = IF outcome = "raised" \/ last
                                  THEN "done" ELSE "loop"]
    /\ SetTask(PassTask, IdleTask)
    /\ last_step' = NoStep
    /\ UNCHANGED <<api, site, reqs, listings, now, runs>>

\* lines 413-414: the pass is over, a later pass may start
PassFinish ==
    /\ periodic.pc = "done"
    /\ periodic' = IdlePass
    /\ last_step' = NoStep
    /\ UNCHANGED <<api, site, reqs, listings, now, tasks, runs>>

\* ------------------------------------------------------ api/requirements.py
\* asyncio.create_task needs the running event loop of the calling thread:
\* the handlers are declared with def, which FastAPI serves in a worker
\* thread (no loop, RuntimeError); a caller inside a coroutine has one
CreateTask(in_loop) == in_loop

CreateAttrsMutant(t, budget_min, budget_max, deal_breakers) ==
    [NewRow(budget_min, budget_max, deal_breakers, "active", Null)
        EXCEPT !.scraping_status = "pending"]

\* lines 25-41: the row that create_requirement adds
CreateAttrs(t, budget_min, budget_max, deal_breakers) ==
    [NewRow(budget_min, budget_max, deal_breakers, "active", t + Day)
        EXCEPT !.scraping_status = "pending"]

\* the id of a new row is a fresh uuid: no attempt and no pass refers to it
FreshId(rid) ==
    /\ ~reqs[rid].exists
    /\ \A t \in Tasks : tasks[t].rid # rid
    /\ \A i \in 1..Len(periodic.list) : periodic.list[i] # rid

\* the budget columns are NOT NULL in the tables of models/database.py and
\* nullable in those of models/requirement.py; the request may leave the
\* budgets unset
CreateRequirement(rid) ==
    /\ runs < MaxRuns
    /\ runs' = runs + 1
    /\ FreshId(rid)
    /\ \E budget \in {Null, 2}, not_null \in BOOLEAN, in_loop \in BOOLEAN :
          LET persisted == ~(budget = Null /\ not_null)
          IN  /\ reqs' = IF persisted
                         THEN [reqs EXCEPT ![rid] =
                                  CreateAttrs(now, budget, budget, <<>>)]
                         ELSE reqs
              /\ last_step' = [kind |-> "create", rid |-> rid,
                               persisted |-> persisted,
                               spawned |-> persisted /\ CreateTask(in_loop)]
    /\ UNCHANGED <<api, site, listings, now, tasks, periodic>>

\* what a request may carry
Updates == {[status |-> "paused"], [status |-> "active"], [budget_max |-> 3]}

\* lines 184-186
SetAttrs(row, update_data) ==
    [c \in DOMAIN row |->
        IF c \in DOMAIN update_data THEN update_data[c] ELSE row[c]]

UnpauseMutant(update_data, row) ==
    "status" \in DOMAIN update_data /\ update_data.status = "active"

\* line 189
Unpause(update_data, row) ==
    /\ "status" \in DOMAIN update_data
    /\ update_data.status = "active"
    /\ row.scraping_status = "paused"

PendingAttrs(t) == [scraping_status |-> "pending", next_scrape_at |-> t + Day]

UpdateRequirement(rid) ==
    /\ runs < MaxRuns
    /\ runs' = runs + 1
    /\ reqs[rid].exists
    /\ \E update_data \in Updates, in_loop \in BOOLEAN :
          LET db_requirement == SetAttrs(reqs[rid], update_data)
              unpause == Unpause(update_data, db_requirement)
              attrs == IF unpause
                       THEN SetAttrs(db_requirement, PendingAttrs(now))
                       ELSE db_requirement
          IN  /\ reqs' = [reqs EXCEPT ![rid] =
                             FlushUpdate(reqs[rid], reqs[rid], attrs)]
              /\ last_step' = [kind |-> "update", rid |-> rid,
                               update_data |-> update_data,
                               spawned |-> unpause /\ CreateTask(in_loop)]
    /\ UNCHANGED <<site, listings, now, tasks, periodic>>

\* lines 256-282: the manual trigger
TriggerScraping(rid) ==
    /\ runs < MaxRuns
    /\ runs' = runs + 1
    /\ reqs[rid].exists
    /\ \E in_loop \in BOOLEAN :
          /\ reqs' = [reqs EXCEPT ![rid] =
                         FlushUpdate(reqs[rid], reqs[rid], PendingAttrs(now))]
          /\ last_step' = [kind |-> "manual", rid |-> rid,
                           spawned |-> CreateTask(in_loop)]
    /\ UNCHANGED <<site, listings, now, tasks, periodic>>

\* ---------------------------------------------------------- delete_requirement
\* the listings relationship declares no cascade: deleting the parent sets
\* requirement_id of its listings to NULL
Nullify(rows, rid) ==
    [i \in 1..Len(rows) |->
        IF rows[i].requirement_id = rid
        THEN [rows[i] EXCEPT !.requirement_id = NoReq] ELSE rows[i]]

DeleteRequirement(rid) ==
    /\ reqs[rid].exists
    /\ reqs' = [reqs EXCEPT ![rid] = AbsentRow]
    /\ listings' = Nullify(listings, rid)
    /\ last_step' = NoStep
    /\ UNCHANGED <<site, now, tasks, periodic, runs>>

\* ------------------------------------- SchedulerService._execute_search_task
PriceFilter(data, min_price, max_price) ==
    LET below == IF max_price # 0
                 THEN SelectSeq(data, LAMBDA l : l.price <= max_price)
                 ELSE data
    IN  IF min_price # 0
        THEN SelectSeq(below, LAMBDA l : l.price >= min_price)
        ELSE below

\* get_db() returns the generator of the dependency, which has neither add
\* nor commit: storing raises, the task reports failed, no row is written
StoreResults(rows, kept, rid) == [stored |-> rows, status |-> "failed"]

ExecuteSearchTask(rid) ==
    /\ runs < MaxRuns
    /\ runs' = runs + 1
    /\ reqs[rid].exists
    /\ \E data \in Results(site) :
          LET min_price == reqs[rid].budget_min
              max_price == reqs[rid].budget_max
              compare_raises == /\ min_price # 0 \/ max_price # 0
                                /\ \E i \in 1..Len(data) : data[i].price = NoPrice
              kept == IF compare_raises THEN <<>>
                      ELSE PriceFilter(data, min_price, max_price)
              res == StoreResults(listings, kept, rid)
          IN  /\ listings' = res.stored
              /\ last_step' = [kind |-> "search_task", status |-> res.status]
    /\ UNCHANGED <<api, site, reqs, now, tasks, periodic>>

\* ------------------------------------------------------- services/auth.py
CreateAccessToken(data) == Token(TRUE, data.sub)

VerifyTokenMutant(token) == token.sub

\* lines 37-46: a token that does not decode (bad signature, expired,
\* malformed) gives None, and so does a payload without a subject
VerifyToken(token) == IF token.decodable THEN token.sub ELSE NoEmail

GetUserByEmail(users, email) ==
    IF email \in DOMAIN users THEN users[email] ELSE NoUserRow

\* lines 82-88
GetCurrentUser(users, token) ==
    LET email == VerifyToken(token)
    IN  IF email = NoEmail THEN NoUserRow ELSE GetUserByEmail(users, email)

\* lines 72-79
AuthenticateUser(users, email, password) ==
    LET user == GetUserByEmail(users, email)
    IN  IF ~user.exists THEN NoUserRow
        ELSE IF ~VerifyPassword(password, user.password_hash) THEN NoUserRow
        ELSE user

\* get_current_user_dependency of api/auth.py: no credentials or no user
\* for the token is answered 401
GetCurrentUserDependency(users, credentials) ==
    LET user == IF credentials.present
                THEN GetCurrentUser(users, credentials) ELSE NoUserRow
    IN  [status |-> IF user.exists THEN 200 ELSE 401, user |-> user]

\* ---------------------------------------------------------------- main.py
\* lines 56-62: the routers the application includes; api.auth is imported
\* and its router is not included
Routers ==
    {"requirements", "listings", "messages", "scraper", "parser", "valuation",
     "scheduler"}

Route(router, response) ==
    IF router \in Routers THEN response ELSE Response(404, {})

\* a step of the API that reaches no handler body, or a handler that writes
\* nothing
NoEffect ==
    /\ last_step' = NoStep
    /\ UNCHANGED <<site, reqs, listings, now, tasks, periodic, runs>>

\* lines 54-69 of services/auth.py: UserCreate (schemas.py 18-19) has the
\* fields email and password only, so reading user.oauth_provider raises
\* and no row is added
CreateUser(email, password) ==
    /\ api' = [api EXCEPT
                 !.request = Request("service", "create_user", NoCredentials,
                                     NoReq,
                                     [email |-> email, password |-> password]),
                 !.response = Response(500, {})]
    /\ NoEffect

\* the login endpoint of api/auth.py: a token for the authenticated user,
\* 401 otherwise
LoginHandler(users, email, password) ==
    IF AuthenticateUser(users, email, password).exists
    THEN [Response(200, {}) EXCEPT
             !.token = CreateAccessToken([sub |-> email])]
    ELSE Response(401, {})

Login(email, password) ==
    /\ api' = [api EXCEPT
                 !.request = Request("auth", "login", NoCredentials, NoReq,
                                     [email |-> email, password |-> password]),
                 !.response = Route("auth",
                                    LoginHandler(api.users, email, password))]
    /\ NoEffect

\* ------------------------------------------- api/requirements.py, by request
RequirementOps == {"list", "get", "update", "delete", "trigger"}

FoundMutant(rows, rid, user_id) == rows[rid].exists

\* the lookup of lines 129-132, 171-174, 233-236, 256-259
Found(rows, rid, user_id) == rows[rid].exists /\ rows[rid].user_id = user_id

\* lines 84-86
Owned(rows, user_id) ==
    {r \in RequirementIds : rows[r].exists /\ rows[r].user_id = user_id}

RequirementsRequest(credentials, op, rid) ==
    LET auth == GetCurrentUserDependency(api.users, credentials)
        request == Request("requirements", op, credentials, rid, <<>>)
    IN  IF auth.status # 200
        THEN /\ api' = [api EXCEPT !.request = request,
                                   !.response = Response(401, {})]
             /\ NoEffect
        ELSE IF op = "list"
        THEN /\ api' = [api EXCEPT
                          !.request = request,
                          !.response = Response(200, Owned(reqs, auth.user.id))]
             /\ NoEffect
        ELSE IF ~Found(reqs, rid, auth.user.id)
        THEN /\ api' = [api EXCEPT !.request = request,
                                   !.response = Response(404, {})]
             /\ NoEffect
        ELSE \/ /\ op = "get"
                /\ api' = [api EXCEPT !.request = request,
                                      !.response = Response(200, {rid})]
                /\ NoEffect
             \/ /\ op = "update"
                /\ UpdateRequirement(rid)
                /\ api' = [api EXCEPT !.request = request,
                                      !.response = Response(200, {rid})]
             \/ /\ op = "delete"
                /\ DeleteRequirement(rid)
                /\ api' = [api EXCEPT !.request = request,
                                      !.response = Response(200, {})]
             \/ /\ op = "trigger"
                /\ TriggerScraping(rid)
                /\ api' = [api EXCEPT
                             !.request = request,
                             !.response =
                                 Response(IF last_step'.spawned THEN 200
                                          ELSE 500, {})]

\* ----------------------------------------------------------- api/listings.py
\* line 14: the id of mock_user is a uuid drawn at import; no row of the
\* users table carries it
MockUser == "mock"

\* what a client may submit as a listing
ListingBodies ==
    {Candidate("x1", 2, <<"b", "c", "a">>), Candidate("", 2, <<"b", "c", "a">>)}

\* lines 50-71: the handler takes no credentials.  A body without
\* external_id or listing_url fails validation (schemas.py 94-122); the
\* requirement is looked up for mock_user; Listing of models/listing.py has
\* no column external_id, so building the row raises
CreateListingStatus(rows, rid, complete) ==
    IF ~complete THEN 422
    ELSE IF ~Found(rows, rid, MockUser) THEN 403
    ELSE 500

CreateListing(credentials, rid, listing, complete) ==
    /\ api' = [api EXCEPT
                 !.request = Request("listings", "create_listing", credentials,
                                     rid, [listing |-> listing,
                                           complete |-> complete]),
                 !.response = Route("listings",
                     Response(CreateListingStatus(reqs, rid, complete), {}))]
    /\ NoEffect

\* lines 33-48
GetListing(credentials, listing_id) ==
    LET listing == IF listing_id \in 1..Len(listings)
                   THEN <<listings[listing_id]>> ELSE <<>>
        response ==
            IF listing = <<>> THEN Response(404, {})
            ELSE IF \/ listing[1].requirement_id = NoReq
                    \/ ~Found(reqs, listing[1].requirement_id, MockUser)
            THEN Response(403, {})
            ELSE [Response(200, {}) EXCEPT !.listing = listing]
    IN  /\ api' = [api EXCEPT
                     !.request = Request("listings", "get_listing", credentials,
                                         NoReq, [listing_id |-> listing_id]),
                     !.response = Route("listings", response)]
        /\ NoEffect

\* ---------------------------------------------------------- api/scheduler.py
TaskKinds == {"search", "analyze", "valuate"}

\* services/scheduler.py 35-145: whether the service call enqueues a job (it
\* raises otherwise).  schedule_search_task calls query on the generator that
\* get_db() returns; the other two enqueue when Redis answers
ScheduleTask(kind, redis_ok) == kind # "search" /\ redis_ok

\* lines 40-55, 73-88, 106-121: the check of the field raises
\* HTTPException(400) inside the try block, and `except Exception` answers
\* every exception with 500
ScheduleStatus(has_field, enqueued) ==
    IF ~has_field THEN 500 ELSE IF enqueued THEN 200 ELSE 500

ScheduleRequest(credentials, kind, has_field, redis_ok) ==
    LET auth == GetCurrentUserDependency(api.users, credentials)
        enqueued == /\ auth.status = 200
                    /\ has_field
                    /\ ScheduleTask(kind, redis_ok)
        status == IF auth.status # 200 THEN 401
                  ELSE ScheduleStatus(has_field, enqueued)
    IN  /\ enqueued => runs < MaxRuns
        /\ runs' = IF enqueued THEN runs + 1 ELSE runs
        /\ api' = [api EXCEPT
                     !.request = Request("scheduler", kind, credentials, NoReq,
                                         [has_field |-> has_field]),
                     !.response = Route("scheduler", Response(status, {})),
                     !.queue = IF enqueued THEN @ + 1 ELSE @]
        /\ last_step' = NoStep
        /\ UNCHANGED <<site, reqs, listings, now, tasks, periodic>>

\* ------------------------------------------------------------------ spec
Next ==
    \/ Tick
    \/ \E t \in Tasks, rid \in RequirementIds : TriggerCall(t, rid)
    \/ \E t \in Tasks : EnterRaises(t)
    \/ \E t \in Tasks : SearchReturns(t)
    \/ \E t \in Tasks : ExitScraper(t)
    \/ \E t \in Tasks : TaskReturn(t)
    \/ PassStart
    \/ PassInvoke
    \/ PassResume
    \/ PassFinish
    \/ \E rid \in RequirementIds : CreateRequirement(rid)
    \/ \E rid \in RequirementIds : UpdateRequirement(rid) /\ UNCHANGED api
    \/ \E rid \in RequirementIds : TriggerScraping(rid) /\ UNCHANGED api
    \/ \E rid \in RequirementIds : DeleteRequirement(rid) /\ UNCHANGED api
    \/ \E rid \in RequirementIds : ExecuteSearchTask(rid)

Spec == Init /\ [][Next]_vars

\* the periodic pass as a loop that keeps running: a pass starts again after
\* the last one has ended, the query of a pass is not refused for ever, the
\* loop of the pass goes on, and each await of the trigger that the pass has
\* called returns
PassRuns ==
    /\ WF_vars(PassStart)
    /\ SF_vars(PassStart /\ periodic'.query_ok)
    /\ WF_vars(PassInvoke)
    /\ WF_vars(PassResume)
    /\ WF_vars(PassFinish)
    /\ WF_vars(EnterRaises(PassTask) \/ SearchReturns(PassTask))
    /\ WF_vars(ExitScraper(PassTask))

LiveSpec == Init /\ [][Next]_vars /\ PassRuns

\* the HTTP interface on its own: the requests of any client against the
\* rows of Init, no scrape running
ApiInit ==
    /\ now = 0
    /\ site = {}
    /\ \E s2 \in {"active", "paused"} :
          reqs = [r \in RequirementIds |->
                    IF r = "r1"
                    THEN NewRow(2, 2, << <<"B", "a">> >>, "active", Day)
                    ELSE NewRow(2, 2, <<>>, s2, 0)]
    /\ listings = <<>>
    /\ tasks = [t \in Tasks |-> IdleTask]
    /\ periodic = IdlePass
    /\ runs = 0
    /\ last_step = NoStep
    /\ \E users \in UserTables : api = [IdleApi EXCEPT !.users = users]

ApiNext ==
    \/ \E email \in Emails, password \in Passwords : CreateUser(email, password)
    \/ \E email \in Emails, password \in Passwords : Login(email, password)
    \/ \E credentials \in Credentials, op \in RequirementOps,
          rid \in RequirementIds : RequirementsRequest(credentials, op, rid)
    \/ \E credentials \in Credentials, rid \in RequirementIds,
          listing \in ListingBodies, complete \in BOOLEAN :
          CreateListing(credentials, rid, listing, complete)
    \/ \E credentials \in Credentials, listing_id \in 1..MaxResults :
          GetListing(credentials, listing_id)
    \/ \E credentials \in Credentials, kind \in TaskKinds,
          has_field \in BOOLEAN, redis_ok \in BOOLEAN :
          ScheduleRequest(credentials, kind, has_field, redis_ok)

ApiSpec == ApiInit /\ [][ApiNext]_vars

\* ----------------------------------------------------------------- claims
InFlight(r) ==
    {t \in Tasks : tasks[t].rid = r /\ tasks[t].pc \in {"scraping", "exiting"}}

InBudget(price, bmin, bmax) == price # NoPrice /\ bmin <= price /\ price <= bmax

\* the keyword occurs in the title at some offset, letter case ignored
TitleHolds(title, keyword) ==
    \E o \in 0..(Len(title) - Len(keyword)) :
       \A k \in 1..Len(keyword) :
          LowerChar(title[o + k]) = LowerChar(keyword[k])

Stored(rows, olx_id, rid) ==
    {k \in 1..Len(rows) : rows[k].olx_id = olx_id /\ rows[k].requirement_id = rid}

\* C1: the state in which an attempt has committed its results has the
\* requirement completed with next_scrape_at = last_scraped_at + 24 hours.
C1_SuccessSchedule ==
    last_step.kind = "commit" =>
        /\ reqs[last_step.rid].scraping_status = "completed"
        /\ reqs[last_step.rid].next_scrape_at
              = reqs[last_step.rid].last_scraped_at + Day

C1_Witness ==
    /\ last_step.kind = "commit"
    /\ now = 1
    /\ reqs[last_step.rid].last_scraped_at = 1
    /\ reqs[last_step.rid].next_scrape_at = 1 + Day

\* C2: when an attempt has ended in failure and the failed status was
\* written, next_scrape_at is the failure time plus one hour.
C2_FailureRetry ==
    (last_step.kind = "handler" /\ last_step.persisted) =>
        /\ reqs[last_step.rid].scraping_status = "failed"
        /\ reqs[last_step.rid].next_scrape_at = now + Hour

\* C3: an attempt during which the search raised ends failed, never completed.
C3_SearchFailureFails ==
    \A t \in Tasks :
       (tasks[t].pc = "done" /\ tasks[t].search_raised) =>
           tasks[t].outcome = "failed"

\* C4: once the trigger has returned from an attempt that had marked an
\* existing requirement in_progress, and no other attempt on that requirement
\* is in flight, the stored scraping_status is completed or failed.
C4_TerminalStatus ==
    \A t \in Tasks :
       LET r == tasks[t].rid
       IN  (/\ tasks[t].pc = "done"
            /\ tasks[t].marked
            /\ reqs[r].exists
            /\ InFlight(r) = {}) =>
               reqs[r].scraping_status \in {"completed", "failed"}

\* C5: a call of the trigger with the id of no stored requirement returns at
\* once without raising and leaves every requirement and listing row as it was.
C5_NotFoundNoWrite ==
    [][\A t \in Tasks :
          (/\ tasks[t].pc = "idle"
           /\ tasks'[t].pc # "idle"
           /\ ~reqs[tasks'[t].rid].exists) =>
              /\ reqs' = reqs
              /\ listings' = listings
              /\ tasks'[t].pc = "done"
              /\ tasks'[t].outcome # "raised"]_vars

C5_Witness ==
    \E t \in Tasks : tasks[t].pc = "done" /\ tasks[t].outcome = "not_found"

\* C6: no attempt ends by raising out of the trigger, and a pass whose query
\* returned ends having invoked the trigger for every requirement that was
\* due, whatever the attempts before it did.
C6_NoEscape ==
    /\ \A t \in Tasks : tasks[t].outcome # "raised"
    /\ \A i \in 1..Len(periodic.outcomes) : periodic.outcomes[i] # "raised"
    /\ (periodic.pc = "done" /\ periodic.query_ok) =>
          \A r \in periodic.due : periodic.invoked[r] >= 1

C6_Witness ==
    /\ periodic.pc = "done"
    /\ Len(periodic.outcomes) = 2
    /\ periodic.outcomes[1] = "failed"
    /\ \A r \in RequirementIds : periodic.invoked[r] = 1

C8_NoSecondRow ==
    [][\A info \in (IF last_step'.kind = "commit" THEN {last_step'}
                    ELSE IF last_step'.kind = "handler"
                    THEN {last_step'.saved[i] : i \in 1..Len(last_step'.saved)}
                    ELSE {}) :
          LET m == info.matching
              rid == last_step'.rid
              distinct == \A i, j \in 1..Len(m) :
                             m[i].olx_id = m[j].olx_id => i = j
              fresh == {i \in 1..Len(m) : Stored(listings, m[i].olx_id, rid) = {}}
          IN  /\ distinct => info.saved_count = Cardinality(fresh)
              /\ \A i \in 1..Len(m) :
                    Stored(listings, m[i].olx_id, rid) # {} =>
                       Cardinality(Stored(listings', m[i].olx_id, rid)) = 1]_vars

C8_Witness ==
    /\ last_step.kind = "commit"
    /\ Len(last_step.matching) = 1
    /\ last_step.saved_count = 0
    /\ Cardinality(Stored(listings, last_step.matching[1].olx_id,
                          last_step.rid)) = 1

\* C9: no candidate priced below budget_min or above budget_max is counted in
\* matching_listings_count, and every listing row that any step stores was
\* stored by a trigger commit with a price inside the budget.
C9_BudgetFilter ==
    [][/\ last_step'.kind = "commit" =>
             LET d == last_step'.listings_data
                 inside == {i \in 1..Len(d) :
                               InBudget(d[i].price, last_step'.budget_min,
                                        last_step'.budget_max)}
             IN  /\ last_step'.matching_count <= Cardinality(inside)
                 /\ \A i \in 1..Len(last_step'.matching) :
                       InBudget(last_step'.matching[i].price,
                                last_step'.budget_min, last_step'.budget_max)
       /\ Len(listings') >= Len(listings)
       /\ \A k \in (Len(listings) + 1)..Len(listings') :
             /\ last_step'.kind = "commit"
             /\ InBudget(listings'[k].price, last_step'.budget_min,
                         last_step'.budget_max)]_vars

C9_Witness ==
    /\ last_step.kind = "commit"
    /\ \E i, j \in 1..Len(last_step.listings_data) :
          /\ last_step.listings_data[i].price = 3
          /\ last_step.listings_data[j].price = 2
    /\ last_step.matching_count = 1
    /\ last_step.saved_count = 1

\* C10: no candidate whose title holds one of the requirement's deal-breaker
\* keywords, letter case ignored, is in the matching set or stored, whatever
\* its price.
C10_DealBreakerFilter ==
    [][last_step'.kind = "commit" =>
          LET dbs == last_step'.deal_breakers
              hit(title) == \E n \in 1..Len(dbs) : TitleHolds(title, dbs[n])
          IN  /\ \A i \in 1..Len(last_step'.matching) :
                    ~hit(last_step'.matching[i].title)
              /\ \A k \in (Len(listings) + 1)..Len(listings') :
                    ~hit(listings'[k].title)]_vars

C10_Witness ==
    /\ last_step.kind = "commit"
    /\ last_step.deal_breakers # <<>>
    /\ \E i \in 1..Len(last_step.listings_data) :
          /\ last_step.listings_data[i].price = 2
          /\ last_step.listings_data[i].title = <<"c", "b", "A">>
    /\ last_step.matching = <<>>

\* the candidates of a result that are priced inside the budget and whose
\* title holds no deal-breaker keyword
Satisfying(data, bmin, bmax, dbs) ==
    {i \in 1..Len(data) :
        /\ InBudget(data[i].price, bmin, bmax)
        /\ ~\E n \in 1..Len(dbs) : TitleHolds(data[i].title, dbs[n])}

\* C11: in the state in which an attempt has committed its results, the stored
\* total_listings_found is the number of candidates the search returned to
\* that attempt and the stored matching_listings_count is the number of those
\* candidates that satisfy the matching predicate.
C11_Counters ==
    last_step.kind = "commit" =>
        /\ reqs[last_step.rid].total_listings_found
              = Len(last_step.listings_data)
        /\ reqs[last_step.rid].matching_listings_count
              = Cardinality(Satisfying(last_step.listings_data,
                                       last_step.budget_min,
                                       last_step.budget_max,
                                       last_step.deal_breakers))

\* C12: when an attempt on a requirement whose budget bounds are both unset
\* has committed, every candidate that carries a price and whose title holds
\* no deal-breaker keyword is counted as matching.
C12_UnsetBudget ==
    (/\ last_step.kind = "commit"
     /\ last_step.budget_min = Null
     /\ last_step.budget_max = Null) =>
        LET d == last_step.listings_data
            dbs == last_step.deal_breakers
            eligible == {i \in 1..Len(d) :
                            /\ d[i].price # NoPrice
                            /\ ~\E n \in 1..Len(dbs) : TitleHolds(d[i].title, dbs[n])}
        IN  last_step.matching_count = Cardinality(eligible)

\* C13: in the state in which create_requirement has stored a requirement, the
\* row has scraping_status pending and next_scrape_at = now + 24 hours, and a
\* detached run of the trigger has been scheduled for it.
C13_CreateSchedules ==
    (last_step.kind = "create" /\ last_step.persisted) =>
        /\ reqs[last_step.rid].exists
        /\ reqs[last_step.rid].scraping_status = "pending"
        /\ reqs[last_step.rid].next_scrape_at = now + Day
        /\ last_step.spawned

Admitted ==
    {<<"pending", "in_progress">>, <<"in_progress", "completed">>,
     <<"in_progress", "failed">>, <<"completed", "in_progress">>,
     <<"failed", "in_progress">>}

\* C15: every step that changes the stored scraping_status of a requirement
\* makes one of the admitted changes or is a user action that resets it to
\* pending, and no attempt marks in_progress a requirement that is in_progress.
C15_Transitions ==
    [][/\ \A r \in RequirementIds :
             (/\ reqs[r].exists
              /\ reqs'[r].exists
              /\ reqs'[r].scraping_status # reqs[r].scraping_status) =>
                 \/ <<reqs[r].scraping_status, reqs'[r].scraping_status>>
                       \in Admitted
                 \/ /\ reqs'[r].scraping_status = "pending"
                    /\ last_step'.kind \in {"manual", "update"}
                    /\ last_step'.rid = r
       /\ \A t \in Tasks :
             (~tasks[t].marked /\ tasks'[t].marked) =>
                 reqs[tasks'[t].rid].scraping_status # "in_progress"]_vars

\* C16: an update that turns a paused requirement whose scraping_status is
\* completed or failed into an active one leaves it with scraping_status
\* pending and next_scrape_at = now + 24 hours and schedules a scrape.
C16_Unpause ==
    [][(/\ last_step'.kind = "update"
        /\ reqs[last_step'.rid].status = "paused"
        /\ reqs'[last_step'.rid].status = "active"
        /\ reqs[last_step'.rid].scraping_status \in {"completed", "failed"}) =>
           /\ reqs'[last_step'.rid].scraping_status = "pending"
           /\ reqs'[last_step'.rid].next_scrape_at = now + Day
           /\ last_step'.spawned]_vars

\* C17: no requirement has more than one attempt between the commit that
\* marks it in_progress and the end of the attempt.
C17_OneInFlight ==
    \A r \in RequirementIds : Cardinality(InFlight(r)) <= 1

\* C18: the step that deletes a requirement leaves exactly the listing rows
\* that did not belong to it.
C18_DeleteCascades ==
    [][\A r \in RequirementIds :
          (reqs[r].exists /\ ~reqs'[r].exists) =>
              listings' = SelectSeq(listings, LAMBDA l : l.requirement_id # r)]_vars

ActiveAndDue(r) ==
    /\ reqs[r].exists
    /\ reqs[r].status = "active"
    /\ reqs[r].next_scrape_at \in 0..now

\* C19: while the periodic pass keeps running, a requirement that is active
\* and due is passed to the trigger by a pass, unless it stops being active
\* and due or the operations of the behaviour are used up; whatever its
\* scraping_status is.
C19_AtLeastOnce ==
    \A r \in RequirementIds :
       [](ActiveAndDue(r) =>
             <>(\/ periodic.invoked[r] >= 1
                \/ ~ActiveAndDue(r)
                \/ runs = MaxRuns))

C19_Witness ==
    \E r \in RequirementIds :
       /\ periodic.invoked[r] = 1
       /\ tasks[PassTask].pc = "scraping"
       /\ tasks[PassTask].rid = r
       /\ \E t \in Tasks \ {PassTask} :
             /\ tasks[t].pc = "done"
             /\ tasks[t].rid = r
             /\ tasks[t].marked
             /\ tasks[t].outcome = "failed"
       /\ reqs[r].last_scraped_at = 1

\* C24: the step by which an attempt starts its scraper call leaves the
\* requirement stored with scraping_status in_progress and last_scraped_at =
\* now: the write is committed before the call is in flight.
C24_MarkedBeforeScrape ==
    [][\A t \in Tasks :
          (tasks[t].pc # "scraping" /\ tasks'[t].pc = "scraping") =>
              /\ reqs'[tasks'[t].rid].exists
              /\ reqs'[tasks'[t].rid].scraping_status = "in_progress"
              /\ reqs'[tasks'[t].rid].last_scraped_at = now]_vars

C24_Witness ==
    \E t \in Tasks :
       /\ tasks[t].pc = "scraping"
       /\ reqs[tasks[t].rid].scraping_status = "in_progress"
       /\ reqs[tasks[t].rid].last_scraped_at = 1
       /\ reqs[tasks[t].rid].status = "paused"

\* C26 as stated: a pass calls the trigger only for a requirement that, at the
\* moment of the call, is active and has a next_scrape_at that has come.
C26_InvokedOnlyDueNow ==
    [][\A r \in RequirementIds :
          (periodic'.invoked[r] > periodic.invoked[r] /\ reqs[r].exists) =>
              /\ reqs[r].status = "active"
              /\ reqs[r].next_scrape_at \in 0..now]_vars

\* C26 amended: a pass calls the trigger only for a requirement that was
\* active and had a next_scrape_at that had come when the pass ran its query.
C26_InvokedOnlyDue ==
    [][\A r \in RequirementIds :
          periodic'.invoked[r] > periodic.invoked[r] => r \in periodic.due]_vars

C26_Witness ==
    /\ periodic.pc = "done"
    /\ periodic.query_ok
    /\ \E r \in RequirementIds : periodic.invoked[r] = 1
    /\ \E r \in RequirementIds :
          /\ reqs[r].exists
          /\ reqs[r].status = "paused"
          /\ reqs[r].next_scrape_at = 0
          /\ reqs[r].scraping_status = "pending"
          /\ periodic.invoked[r] = 0

\* C27: no two stored listing rows have the same external id and the same
\* requirement id.
C27_NoDuplicatePair ==
    \A i, j \in 1..Len(listings) :
       (/\ listings[i].olx_id = listings[j].olx_id
        /\ listings[i].requirement_id = listings[j].requirement_id) => i = j

C27_Witness ==
    /\ last_step.kind = "handler"
    /\ Len(last_step.saved) = 1
    /\ last_step.saved[1].saved_count = 2
    /\ last_step.saved[1].matching[1].olx_id = last_step.saved[1].matching[2].olx_id
    /\ reqs[last_step.rid].exists

\* C29: a step of an attempt whose requirement has been deleted stores no
\* listing, changes no requirement row, and ends the attempt without raising.
C29_DeletedInFlight ==
    [][\A t \in Tasks :
          (/\ tasks[t].pc \in {"scraping", "exiting"}
           /\ ~reqs[tasks[t].rid].exists
           /\ tasks'[t] # tasks[t]) =>
              /\ listings' = listings
              /\ reqs' = reqs
              /\ tasks'[t].pc = "done"
              /\ tasks'[t].outcome # "raised"]_vars

C29_Witness ==
    /\ last_step.kind = "handler"
    /\ ~reqs[last_step.rid].exists
    /\ Len(last_step.saved) = 1
    /\ last_step.saved[1].saved_count = 1
    /\ listings = <<>>
    /\ \E t \in Tasks : /\ tasks[t].pc = "done"
                        /\ tasks[t].rid = last_step.rid
                        /\ tasks[t].marked
                        /\ tasks[t].outcome = "failed"

\* C30: every stored requirement has matching_listings_count <=
\* total_listings_found.
C30_MatchingWithinTotal ==
    \A r \in RequirementIds :
       reqs[r].exists =>
           reqs[r].matching_listings_count <= reqs[r].total_listings_found

\* the four ways of carrying no valid bearer token: no token, a token that
\* does not decode, a token without a subject, a subject that no user has
InvalidCredentials(users, c) ==
    \/ ~c.present
    \/ ~c.decodable
    \/ c.sub = NoEmail
    \/ ~users[c.sub].exists

C22_LoginIssuesToken ==
    [][api'.request.op = "login" =>
          LET email == api'.request.body.email
              password == api'.request.body.password
              matches == /\ api.users[email].exists
                         /\ api.users[email].password_hash =
                               GetPasswordHash(password)
          IN  /\ api'.response.token.present <=> matches
              /\ matches => /\ api'.response.status = 200
                            /\ api'.response.token.decodable
                            /\ api'.response.token.sub = email
              /\ ~matches => api'.response.status = 401]_vars

\* the bearer of c is a user who owns requirement rid
Owner(users, c, rows, rid) ==
    /\ ~InvalidCredentials(users, c)
    /\ rid # NoReq
    /\ rows[rid].exists
    /\ rows[rid].user_id = users[c.sub].id

\* C23: for an authenticated user who owns requirement R, creating a listing
\* for R answers 200 and stores it under R, and a later get of that listing
\* by the same user answers 200 with the title and marketplace id submitted
C23_OwnerCreatesListing ==
    [][/\ (/\ api'.request.op = "create_listing"
           /\ api'.request.body.complete
           /\ Owner(api.users, api'.request.credentials, reqs,
                    api'.request.rid)) =>
             /\ api'.response.status = 200
             /\ \E i \in 1..Len(listings') :
                   /\ listings'[i].requirement_id = api'.request.rid
                   /\ listings'[i].olx_id = api'.request.body.listing.olx_id
                   /\ listings'[i].title = api'.request.body.listing.title
       /\ (/\ api'.request.op = "get_listing"
           /\ api'.request.body.listing_id \in 1..Len(listings)
           /\ Owner(api.users, api'.request.credentials, reqs,
                    listings[api'.request.body.listing_id].requirement_id)) =>
             /\ api'.response.status = 200
             /\ api'.response.listing =
                   <<listings[api'.request.body.listing_id]>>]_vars

\* C25: a scheduling request that lacks its required field (requirement_id
\* for search, listing_ids for analyze and valuate) is answered 400 and
\* enqueues no task
C25_MissingFieldIs400 ==
    [][(/\ api'.request.router = "scheduler"
        /\ ~InvalidCredentials(api.users, api'.request.credentials)
        /\ ~api'.request.body.has_field) =>
          /\ api'.response.status = 400
          /\ api'.queue = api.queue]_vars

\* C28: get_requirement, update_requirement, delete_requirement and
\* trigger_scraping called by a user who does not own the requirement answer
\* 404, reveal no field of it, change no field of it and start no scrape
C28_OwnershipIsolation ==
    [][(/\ api'.request.router = "requirements"
        /\ api'.request.op \in {"get", "update", "delete", "trigger"}
        /\ ~InvalidCredentials(api.users, api'.request.credentials)
        /\ reqs[api'.request.rid].exists
        /\ reqs[api'.request.rid].user_id #
              api.users[api'.request.credentials.sub].id) =>
          /\ api'.response.status = 404
          /\ api'.response.data = {}
          /\ reqs' = reqs
          /\ listings' = listings
          /\ tasks' = tasks
          /\ last_step' = NoStep]_vars

C28_Witness ==
    /\ api.request.router = "requirements"
    /\ api.request.op = "trigger"
    /\ api.request.credentials = Token(TRUE, "b")
    /\ api.users["b"].exists
    /\ reqs[api.request.rid].exists
    /\ reqs[api.request.rid].user_id = "u1"
    /\ api.response.status = 404

====
